---- MODULE Spec2Model ----
(***************************************************************************)
(* Model of the asynchronous orchestrator of the travel planner            *)
(* (src/app/main.py, main_task) and of the three agents it awaits          *)
(* (src/app/agents/*.py).  One run of main_task is a state machine; every  *)
(* external service answers with a nondeterministically chosen response.   *)
(***************************************************************************)
EXTENDS Integers, Sequences, FiniteSets, TLC

\* ------------------------------------------------------------------ bounds
\* longest list of locations an itinerary carries
MaxLocs == 4
\* longest candidate text (in tokens) the itinerary service answers with
MaxTextLen == 4
\* longest trip duration get_daily_forecast is called with
MaxDuration == 17

\* ------------------------------------------------------- program constants
\* top_k of the hotel query
TopK == 3
\* the trip duration chosen on the form (slider default)
Duration == 4
\* number of entries of the colour palette
NumColors == 7

\* ------------------------------------------------------------ input domains
destination == "Mumbai"
Names == {"Mumbai", "Gateway"}
Days == {1, 2}

\* every place name and every day value an answer of the itinerary service may
\* carry; the days outside 1..Duration are the ones the prompt does not ask for
AllNames == Names \cup {"Juhu"}
AllDays == Days \cup {-1, 0, 9}

\* Python values: None, and the truthiness Python's `if x:` applies
None == [tag |-> "None"]
Absent == [tag |-> "absent"]

\* ------------------------------------------------------------- geocoding
\* what the geocoding service holds for a place name: strings lat / lon
GeoEntry(name) ==
  CASE name = "Mumbai" -> [lat |-> <<"str", 19>>, lon |-> <<"str", 72>>]
    [] name = "Juhu" -> [lat |-> <<"str", 20>>, lon |-> <<"str", 71>>]
    [] OTHER -> [lat |-> <<"str", 18>>, lon |-> <<"str", 73>>]

\* float(s) of a numeric string
float(s) == s[2]

\* the answers of the geocoding service to a search for `name`
GeoResponses(name) ==
  { [kind |-> "ok", data |-> <<GeoEntry(name)>>],
    [kind |-> "empty", data |-> <<>>],
    [kind |-> "http_error", data |-> <<>>],
    [kind |-> "timeout", data |-> <<>>],
    [kind |-> "not_json", data |-> <<>>],
    [kind |-> "bad_entry", data |-> <<>>] }

\* get_geocode's HTTP part: the try block and its except clauses
geocode_lookup(resp) ==
  CASE resp.kind = "ok" /\ Len(resp.data) > 0 ->
         [tag |-> "dict", lat |-> float(resp.data[1].lat),
                          lng |-> float(resp.data[1].lon)]
    [] resp.kind = "ok" /\ Len(resp.data) = 0 -> None
    [] resp.kind = "empty" -> None
    [] resp.kind = "http_error" -> None
    [] resp.kind = "not_json" -> None
    [] resp.kind = "bad_entry" -> None
    [] OTHER -> None

\* get_geocode without its cache: no API key, no request
get_geocode(hasKey, resp) ==
  IF ~hasKey THEN None ELSE geocode_lookup(resp)

\* does the uncached get_geocode send a request
geocode_requests(hasKey) == hasKey

\* ---------------------------------------------------------------- routing
RouteKinds == {"ok", "ok_empty_points", "not_ok", "http_error", "timeout",
               "not_json", "bad_route"}

\* the request get_google_directions builds from its waypoints
directions_request(waypoints_list) ==
  [origin |-> waypoints_list[1],
   destination |-> waypoints_list[Len(waypoints_list)],
   waypoints |-> IF Len(waypoints_list) > 2
                   THEN SubSeq(waypoints_list, 2, Len(waypoints_list) - 1)
                   ELSE <<>>]

\* mutant: the length check of lines 81-82 is missing
directions_requests_unguarded(waypoints_list) == Len(waypoints_list) >= 1

\* does get_google_directions send a request at all
directions_requests(waypoints_list) == Len(waypoints_list) >= 2

\* get_google_directions: the encoded path, or None
get_google_directions(waypoints_list, kind) ==
  IF ~directions_requests(waypoints_list) THEN None
  ELSE CASE kind = "ok" ->
              [tag |-> "str", empty |-> FALSE,
               points |-> directions_request(waypoints_list)]
         [] kind = "ok_empty_points" ->
              [tag |-> "str", empty |-> TRUE, points |-> <<>>]
         [] OTHER -> None

\* Python truthiness of a value returned by a helper
truthy(v) ==
  CASE v.tag = "None" -> FALSE
    [] v.tag = "str" -> ~v.empty
    [] OTHER -> TRUE

\* mutant: the palette is indexed with the day itself
get_day_color_unwrapped(day) == day - 1

\* get_day_color: index into the palette (0-based, as in the source)
get_day_color(day) == (day - 1) % NumColors

\* ----------------------------------------------------------------- hotels
\* a hotel as _query_chroma builds it from a metadata row
Hotel(h) == [name |-> h, description |-> "description", address |-> "Mumbai",
             rating |-> "rating"]

\* the ranked metadata rows the vector database can answer with (at most top_k)
HotelRows == {<<>>, <<"Taj", "Oberoi">>}

\* the outcomes of the vector-database query
HotelOutcomes ==
  { [kind |-> "ok", rows |-> r] : r \in {x \in HotelRows : Len(x) <= TopK} }
    \cup { [kind |-> "exception", rows |-> <<>>] }

\* _query_chroma: the rows turned into hotels, or the empty list
query_chroma(rows) ==
  IF Len(rows) = 0 THEN <<>> ELSE [i \in 1..Len(rows) |-> Hotel(rows[i])]

\* what find_hotels returns when the query raises
ErrorHotels == << [name |-> "Error", description |-> "Error querying database.",
                   address |-> "", rating |-> "N/A"] >>

\* find_hotels
find_hotels(outcome) ==
  IF outcome.kind = "exception" THEN ErrorHotels ELSE query_chroma(outcome.rows)

\* the generic hotel main_task makes up
placeholder_hotel(dest) == [name |-> "Hotel in " \o dest]

\* mutant: the last entry of the list is taken
choose_top_hotel_last(recommended, dest) ==
  IF Len(recommended) = 0 THEN placeholder_hotel(dest)
  ELSE recommended[Len(recommended)]

\* main_task's choice of the hotel handed to the itinerary task
choose_top_hotel(recommended, dest) ==
  IF Len(recommended) = 0 THEN placeholder_hotel(dest) ELSE recommended[1]

\* ---------------------------------------------------------------- weather
WeatherKinds == {"ok", "no_daily", "bad_daily", "http_error", "timeout", "not_json"}

\* a "%Y-%m-%d" text is modelled by its three numbers, a date object by its
\* year and its day of the year (years of 365 days)
MonthDays == <<31, 28, 31, 30, 31, 30, 31, 31, 30, 31, 30, 31>>

RECURSIVE days_before_month(_)
days_before_month(m) ==
  IF m = 1 THEN 0 ELSE days_before_month(m - 1) + MonthDays[m - 1]

\* datetime.strptime(text, "%Y-%m-%d").date()
strptime(text) == [year |-> text[1], yday |-> days_before_month(text[2]) + text[3]]

\* date + timedelta(days=n), for n of less than a year
date_plus(d, n) ==
  IF d.yday + n > 365 THEN [year |-> d.year + 1, yday |-> d.yday + n - 365]
  ELSE [year |-> d.year, yday |-> d.yday + n]

\* date.strftime("%Y-%m-%d")
strftime(d) ==
  LET m == CHOOSE k \in 1..12 :
             days_before_month(k) < d.yday /\ d.yday <= days_before_month(k) + MonthDays[k]
  IN <<d.year, m, d.yday - days_before_month(m)>>

\* the start dates the form is submitted with
StartDates == {<<2025, 2, 20>>, <<2025, 12, 25>>}

\* mutant: the offset is not capped
forecast_end_offset_uncapped(duration) == duration - 1

\* the last day (offset from the start date) of the requested range
forecast_end_offset(duration) ==
  IF duration - 1 < 15 THEN duration - 1 ELSE 15

\* lines 24-41: the date range of the request
weather_request(start_date, duration) ==
  [start_date |-> start_date,
   end_date |-> strftime(date_plus(strptime(start_date), forecast_end_offset(duration)))]

\* an empty DataFrame
EmptyFrame == [tag |-> "df", rows |-> 0]

\* the try block of get_daily_forecast: one row per requested day
weather_try(kind, duration) ==
  CASE kind = "ok" ->
         [raised |-> FALSE, exc |-> "",
          value |-> [tag |-> "df", rows |-> forecast_end_offset(duration) + 1]]
    [] kind = "no_daily" -> [raised |-> FALSE, exc |-> "", value |-> EmptyFrame]
    [] kind = "http_error" ->
         [raised |-> TRUE, exc |-> "HTTPStatusError", value |-> EmptyFrame]
    [] kind = "timeout" ->
         [raised |-> TRUE, exc |-> "TimeoutException", value |-> EmptyFrame]
    [] kind = "not_json" ->
         [raised |-> TRUE, exc |-> "JSONDecodeError", value |-> EmptyFrame]
    [] OTHER -> [raised |-> TRUE, exc |-> "KeyError", value |-> EmptyFrame]

\* mutant: only HTTPStatusError is caught
get_daily_forecast_http_only(kind, duration) ==
  LET r == weather_try(kind, duration)
  IN IF r.raised /\ r.exc = "HTTPStatusError"
       THEN [raised |-> FALSE, exc |-> "", value |-> EmptyFrame]
       ELSE r

\* get_daily_forecast: both except clauses fall through to the empty frame
get_daily_forecast(kind, duration) ==
  LET r == weather_try(kind, duration)
  IN IF ~r.raised THEN r
     ELSE IF r.exc = "HTTPStatusError"
            THEN [raised |-> FALSE, exc |-> "", value |-> EmptyFrame]
     ELSE [raised |-> FALSE, exc |-> "", value |-> EmptyFrame]

\* -------------------------------------------------------------- itinerary
\* a text is a sequence of tokens: braces, the members of an object ("kv"),
\* an array literal, prose ("junk"), and the opening and closing code fences
Tokens == {"{", "}", "kv", "[]", "junk", "fence_json", "fence"}

RECURSIVE SeqsUpTo(_, _)
SeqsUpTo(S, n) ==
  IF n = 0 THEN {<<>>}
  ELSE LET shorter == SeqsUpTo(S, n - 1)
       IN shorter \cup { Append(s, x) : s \in {t \in shorter : Len(t) = n - 1}, x \in S }

Texts == SeqsUpTo(Tokens, MaxTextLen)

\* json.loads of a text: which JSON value it is, or a JSONDecodeError
json_loads(text) ==
  CASE text = <<"{", "kv", "}">> -> [ok |-> TRUE, shape |-> "object"]
    [] text = <<"{", "}">> -> [ok |-> TRUE, shape |-> "empty_object"]
    [] text = <<"[]">> -> [ok |-> TRUE, shape |-> "array"]
    [] OTHER -> [ok |-> FALSE, shape |-> "JSONDecodeError"]

\* positions of a token in a text
Positions(text, tok) == { i \in 1..Len(text) : text[i] = tok }
Min(S) == CHOOSE x \in S : \A y \in S : x <= y
Max(S) == CHOOSE x \in S : \A y \in S : x >= y

\* re.search(r"\{.*\}", text, re.DOTALL): first "{" up to the last "}" after it
brace_match(text) ==
  LET opens == Positions(text, "{")
      closes == IF opens = {} THEN {}
                ELSE { j \in Positions(text, "}") : j > Min(opens) }
  IN IF opens = {} \/ closes = {} THEN [found |-> FALSE, group |-> <<>>]
     ELSE [found |-> TRUE, group |-> SubSeq(text, Min(opens), Max(closes))]

RECURSIVE lstrip(_, _)
lstrip(text, chars) ==
  IF Len(text) > 0 /\ Head(text) \in chars THEN lstrip(Tail(text), chars) ELSE text

RECURSIVE rstrip(_, _)
rstrip(text, chars) ==
  IF Len(text) > 0 /\ text[Len(text)] \in chars
    THEN rstrip(SubSeq(text, 1, Len(text) - 1), chars) ELSE text

\* _clean_json_response (of a text; None is not a text, see create_itinerary)
clean_json_response(text) ==
  LET m == brace_match(text)
  IN IF m.found THEN m.group
     ELSE rstrip(lstrip(text, {"fence_json", "fence"}), {"fence"})

\* the locations of an itinerary
Loc(days, names) == [day : days, name : names]
LocLists(days, names) == SeqsUpTo(Loc(days, names), MaxLocs)

\* the content of a well-formed answer
Payloads(days, names) ==
  { [itinerary_text |-> "Plan", locations |-> l] : l \in LocLists(days, names) }

\* the Python value a parsed JSON text stands for
json_value(shape, payload) ==
  CASE shape = "object" ->
         [tag |-> "dict", keys |-> {"itinerary_text", "locations"},
          itinerary_text |-> payload.itinerary_text, locations |-> payload.locations]
    [] shape = "empty_object" ->
         [tag |-> "dict", keys |-> {}, itinerary_text |-> "", locations |-> <<>>]
    [] OTHER -> [tag |-> "list"]

\* the dictionary create_itinerary returns on a handled failure
error_itinerary(message) ==
  [tag |-> "dict", keys |-> {"itinerary_text", "locations"},
   itinerary_text |-> message, locations |-> <<>>]

ErrorTexts == {"Error: The AI's response was blocked or empty.",
               "Error: The AI returned an invalid itinerary format.",
               "Error: Gemini API request failed",
               "Error: exception"}

\* the answers of the itinerary service
ItineraryKinds == {"timeout", "http_error", "not_json", "no_candidates",
                   "bad_candidates", "text"}

Returned(v) == [raised |-> FALSE, exc |-> "", raw |-> Absent, value |-> v]
Raised(e, raw) == [raised |-> TRUE, exc |-> e, raw |-> raw, value |-> None]

\* the try block of create_itinerary; raw is raw_response_text when it raises
itinerary_try(resp, payload) ==
  CASE resp.kind = "timeout" -> Raised("TimeoutException", None)
    [] resp.kind = "http_error" -> Raised("HTTPStatusError", None)
    [] resp.kind = "not_json" -> Raised("JSONDecodeError", None)
    [] resp.kind = "no_candidates" ->
         Returned(error_itinerary("Error: The AI's response was blocked or empty."))
    [] resp.kind = "bad_candidates" -> Raised("KeyError", None)
    [] OTHER ->
         LET parsed == json_loads(resp.text)
         IN IF parsed.ok THEN Returned(json_value(parsed.shape, payload))
            ELSE Raised("JSONDecodeError", [tag |-> "text", text |-> resp.text])

\* the except json.JSONDecodeError clause
itinerary_on_decode_error(raw, payload) ==
  IF raw.tag = "None" THEN Raised("TypeError", None)
  ELSE LET parsed == json_loads(clean_json_response(raw.text))
       IN IF parsed.ok THEN Returned(json_value(parsed.shape, payload))
          ELSE Returned(error_itinerary(
                 "Error: The AI returned an invalid itinerary format."))

\* create_itinerary: what the coroutine returns or raises
create_itinerary(resp, payload) ==
  LET r == itinerary_try(resp, payload)
  IN IF ~r.raised THEN r
     ELSE IF r.exc = "JSONDecodeError" THEN itinerary_on_decode_error(r.raw, payload)
     ELSE IF r.exc = "HTTPStatusError"
            THEN Returned(error_itinerary("Error: Gemini API request failed"))
     ELSE Returned(error_itinerary("Error: exception"))

\* does the answer carry the payload (so that the payload matters)
carries_payload(resp) ==
  /\ resp.kind = "text"
  /\ \/ json_loads(resp.text).shape = "object"
     \/ /\ ~json_loads(resp.text).ok
        /\ json_loads(clean_json_response(resp.text)).shape = "object"

\* dict.get(key, default)
dict_get_text(d, default) ==
  IF "itinerary_text" \in d.keys THEN d.itinerary_text ELSE default

\* mutant: an empty list of locations is replaced by the destination
dict_get_locations_or_destination(d, default) ==
  IF "locations" \in d.keys /\ d.locations # <<>> THEN d.locations
  ELSE <<[day |-> 1, name |-> destination]>>

dict_get_locations(d, default) ==
  IF "locations" \in d.keys THEN d.locations ELSE default

\* ------------------------------------------------------------ main_task
\* lines 357-361: the days in the order they first appear
RECURSIVE day_order(_)
day_order(locs) ==
  IF Len(locs) = 0 THEN <<>>
  ELSE LET rest == day_order(SubSeq(locs, 1, Len(locs) - 1))
           d == locs[Len(locs)].day
       IN IF \E i \in 1..Len(rest) : rest[i] = d THEN rest ELSE Append(rest, d)

of_day(seq, d) == SelectSeq(seq, LAMBDA x : x.day = d)

\* mutant: the inner loop runs over all the locations, not over the day's
RECURSIVE tasks_of_groups_all_locs(_, _)
tasks_of_groups_all_locs(locs, days) ==
  IF Len(days) = 0 THEN <<>>
  ELSE [i \in 1..Len(locs) |-> [day |-> Head(days), name |-> locs[i].name]]
         \o tasks_of_groups_all_locs(locs, Tail(days))

\* lines 363-368: one task per location, day group after day group
RECURSIVE tasks_of_groups(_, _)
tasks_of_groups(locs, days) ==
  IF Len(days) = 0 THEN <<>>
  ELSE of_day(locs, Head(days)) \o tasks_of_groups(locs, Tail(days))

make_geocode_tasks(locs) == tasks_of_groups(locs, day_order(locs))

\* mutant: the index of the task is off by one (Python wraps index -1 around)
marker_at_off_by_one(geocode_tasks, i, lat_lng) ==
  LET k == IF i > 1 THEN i - 1 ELSE Len(geocode_tasks)
  IN [lat |-> lat_lng.lat, lng |-> lat_lng.lng, name |-> geocode_tasks[k].name,
      day |-> geocode_tasks[k].day, color |-> get_day_color(geocode_tasks[k].day)]

\* lines 374-377: the marker of the i-th result
marker_at(geocode_tasks, i, lat_lng) ==
  [lat |-> lat_lng.lat, lng |-> lat_lng.lng, name |-> geocode_tasks[i].name,
   day |-> geocode_tasks[i].day, color |-> get_day_color(geocode_tasks[i].day)]

\* mutant: the results are filtered first and then paired with the tasks
RECURSIVE build_markers_zip_found(_, _, _)
build_markers_zip_found(geocode_tasks, geocode_results, n) ==
  IF n = 0 THEN <<>>
  ELSE LET before == build_markers_zip_found(geocode_tasks, geocode_results, n - 1)
       IN IF truthy(geocode_results[n])
            THEN Append(before,
                        marker_at(geocode_tasks, Len(before) + 1, geocode_results[n]))
            ELSE before

\* lines 371-377: the markers of the first n results
RECURSIVE build_markers(_, _, _)
build_markers(geocode_tasks, geocode_results, n) ==
  IF n = 0 THEN <<>>
  ELSE LET before == build_markers(geocode_tasks, geocode_results, n - 1)
       IN IF truthy(geocode_results[n])
            THEN Append(before, marker_at(geocode_tasks, n, geocode_results[n]))
            ELSE before

\* groupby('day') iterates its groups by ascending key
RECURSIVE sorted_days(_)
sorted_days(S) ==
  IF S = {} THEN <<>>
  ELSE LET m == CHOOSE x \in S : \A y \in S : x <= y
       IN <<m>> \o sorted_days(S \ {m})

marker_days(markers) == { markers[i].day : i \in 1..Len(markers) }

\* mutant: the waypoints of a day are taken last marker first
day_waypoints_reversed(markers, d) ==
  LET group == of_day(markers, d)
  IN [i \in 1..Len(group) |-> [lat |-> group[Len(group) + 1 - i].lat,
                               lng |-> group[Len(group) + 1 - i].lng]]

\* line 386: the lat / lng records of a day's markers, in their order
day_waypoints(markers, d) ==
  LET group == of_day(markers, d)
  IN [i \in 1..Len(group) |-> [lat |-> group[i].lat, lng |-> group[i].lng]]

\* mutant: one routing task per marker, each with the waypoints of its day
make_route_tasks_per_marker(markers) ==
  [j \in 1..Len(markers) |->
     [day |-> markers[j].day, waypoints |-> day_waypoints(markers, markers[j].day)]]

\* lines 383-389: one routing task per day group
make_route_tasks(markers) ==
  LET days == sorted_days(marker_days(markers))
  IN [j \in 1..Len(days) |->
        [day |-> days[j], waypoints |-> day_waypoints(markers, days[j])]]

\* mutant: the polyline is coloured by its position among the routes
polyline_at_colored_by_index(route_tasks, i, polyline) ==
  [day |-> route_tasks[i].day, polyline |-> polyline, color |-> get_day_color(i)]

\* mutant: the index of the task is off by one (Python wraps index -1 around)
polyline_at_off_by_one(route_tasks, i, polyline) ==
  LET k == IF i > 1 THEN i - 1 ELSE Len(route_tasks)
  IN [day |-> route_tasks[k].day, polyline |-> polyline,
      color |-> get_day_color(route_tasks[k].day)]

\* lines 394-397: the polyline entry of the i-th result
polyline_at(route_tasks, i, polyline) ==
  [day |-> route_tasks[i].day, polyline |-> polyline,
   color |-> get_day_color(route_tasks[i].day)]

\* lines 392-397: the polylines of the first n results
RECURSIVE build_polylines(_, _, _)
build_polylines(route_tasks, route_results, n) ==
  IF n = 0 THEN <<>>
  ELSE LET before == build_polylines(route_tasks, route_results, n - 1)
       IN IF truthy(route_results[n])
            THEN Append(before, polyline_at(route_tasks, n, route_results[n]))
            ELSE before

\* mutant: an empty hotel list is replaced by the placeholder hotel
make_bundle_with_placeholder(wdf, hotels, text, markers, loc, polylines) ==
  [tag |-> "bundle", weather_df |-> wdf,
   recommended_hotels |-> IF Len(hotels) = 0 THEN <<placeholder_hotel(destination)>>
                          ELSE hotels,
   itinerary_text |-> text, map_markers |-> markers,
   center_lat |-> loc.lat, center_lon |-> loc.lng, route_polylines |-> polylines]

\* lines 399-407
make_bundle(wdf, hotels, text, markers, loc, polylines) ==
  [tag |-> "bundle", weather_df |-> wdf, recommended_hotels |-> hotels,
   itinerary_text |-> text, map_markers |-> markers,
   center_lat |-> loc.lat, center_lon |-> loc.lng, route_polylines |-> polylines]

\* mutant: the check of dest_loc is missing
after_destination_unchecked(loc) == "hotel"

\* lines 317-319: where main_task goes after the destination geocode
after_destination(loc) == IF loc.tag = "None" THEN "aborted" ELSE "hotel"

\* ------------------------------------------------------------------ state
VARIABLES
  world,               \* what the external services can answer in this run
  hasKey,              \* GEOCODE_MAPS_CO_API_KEY is set
  pc,                  \* where main_task is
  exc,                 \* the exception main_task ended with, or ""
  cache,               \* st.cache_data of get_geocode: name -> value or Absent
  dest_loc,
  hotel_kind,          \* how the hotel query ended: "", "ok" or "exception"
  recommended_hotels,
  top_hotel,
  tasks,               \* the weather and the itinerary task of lines 336-343
  weather_df,
  itinerary_text,
  locations,
  geo,                 \* the geocode threads of lines 363-369, in task order
  map_markers,
  routes,              \* the routing threads of lines 384-390, in task order
  route_polylines,
  result,              \* what main_task returned
  calls                \* requests sent to each external service

vars == <<world, hasKey, pc, exc, cache, dest_loc, hotel_kind, recommended_hotels, top_hotel, tasks,
          weather_df, itinerary_text, locations, geo, map_markers, routes,
          route_polylines, result, calls>>

NoTask == [st |-> "none", value |-> None, mode |-> "", hotel |-> None, request |-> None]

ItineraryResponses ==
  { [kind |-> k, text |-> <<>>] : k \in ItineraryKinds \ {"text"} }
    \cup { [kind |-> "text", text |-> t] : t \in Texts }

NoPayload == [itinerary_text |-> "", locations |-> <<>>]

\* which of the failure modes (or successes) an answer of the itinerary service is
itinerary_mode(resp) ==
  IF resp.kind # "text" THEN resp.kind
  ELSE IF json_loads(resp.text).ok THEN "text_ok"
  ELSE IF json_loads(clean_json_response(resp.text)).ok THEN "text_ok"
  ELSE "text_not_json"

\* the state main_task starts in when the services answer as `w` allows:
\* a fresh process, nothing cached yet
Start(w) ==
  /\ world = w
  /\ hasKey \in BOOLEAN
  /\ pc = "start"
  /\ exc = ""
  /\ cache = [n \in AllNames |-> Absent]
  /\ dest_loc = None
  /\ hotel_kind = ""
  /\ recommended_hotels = <<>>
  /\ top_hotel = None
  /\ tasks = [weather |-> NoTask, itinerary |-> NoTask]
  /\ weather_df = None
  /\ itinerary_text = ""
  /\ locations = <<>>
  /\ geo = <<>>
  /\ map_markers = <<>>
  /\ routes = <<>>
  /\ route_polylines = <<>>
  /\ result = None
  /\ calls = [hotel |-> 0, weather |-> 0, itinerary |-> 0,
              geocode |-> [n \in AllNames |-> 0], route |-> [d \in AllDays |-> 0]]

\* the itinerary names places of the city, the destination among them, on
\* days the trip has; every service may answer in each of its ways
Init ==
  Start([names |-> Names, days |-> Days, hotels |-> HotelOutcomes, weather |-> WeatherKinds,
         duration |-> Duration, start_date |-> <<2025, 12, 25>>])

\* line 39, @st.cache_data(ttl=3600): the memo table of get_geocode, keyed by
\* the address text.  A stored None is a stored value like any other, and no
\* entry of a run lives for the hour after which it would expire
cache_read_undecorated(c, name) == Absent
cache_read(c, name) == c[name]

\* mutants of the write: a None result is not stored; the key is ignored
cache_write_unless_none(c, name, v) ==
  IF v = None THEN c ELSE [c EXCEPT ![name] = v]
cache_write_unkeyed(c, name, v) == [n \in DOMAIN c |-> v]
cache_write(c, name, v) == [c EXCEPT ![name] = v]

\* lines 314-322: the destination is geocoded in a worker thread and awaited
DestinationGeocode ==
  /\ pc = "start"
  /\ \E resp \in GeoResponses(destination) :
       LET hit == cache_read(cache, destination)
           loc == IF hit # Absent THEN hit ELSE get_geocode(hasKey, resp)
           sent == hit = Absent /\ geocode_requests(hasKey)
       IN /\ dest_loc' = loc
          /\ cache' = cache_write(cache, destination, loc)
          /\ calls' = [calls EXCEPT !.geocode[destination] = @ + (IF sent THEN 1 ELSE 0)]
          /\ pc' = after_destination(loc)
  /\ UNCHANGED <<world, hasKey, exc, hotel_kind, recommended_hotels, top_hotel, tasks, weather_df,
                 itinerary_text, locations, geo, map_markers, routes,
                 route_polylines, result>>

\* hotel_agent.py line 130: the query runs in a worker thread and is awaited
\* with no timeout, so a vector store that does not answer leaves main_task
\* suspended at line 327 for as long as the process lives
HotelQueryHangs ==
  /\ pc = "hotel"
  /\ pc' = "hung"
  /\ calls' = [calls EXCEPT !.hotel = @ + 1]
  /\ UNCHANGED <<world, hasKey, exc, cache, dest_loc, hotel_kind, recommended_hotels, top_hotel,
                 tasks, weather_df, itinerary_text, locations, geo, map_markers, routes,
                 route_polylines, result>>

\* lines 326-344: the hotel query is awaited, then both tasks are created and
\* gather lets each run up to its request
FindHotels ==
  /\ pc = "hotel"
  /\ \E outcome \in world.hotels :
       LET hotels == find_hotels(outcome)
           top == choose_top_hotel(hotels, destination)
       IN /\ hotel_kind' = outcome.kind
          /\ recommended_hotels' = hotels
          /\ top_hotel' = top
          /\ tasks' = [weather |-> [NoTask EXCEPT !.st = "running",
                                     !.request = weather_request(world.start_date,
                                                                 world.duration)],
                       itinerary |-> [NoTask EXCEPT !.st = "running", !.hotel = top]]
  /\ calls' = [calls EXCEPT !.hotel = @ + 1, !.weather = @ + 1, !.itinerary = @ + 1]
  /\ pc' = "stage3"
  /\ UNCHANGED <<world, hasKey, exc, cache, dest_loc, weather_df, itinerary_text, locations,
                 geo, map_markers, routes, route_polylines, result>>

\* the weather task gets its answer; mode records whether the fetch failed.
\* A task that gather abandoned keeps running until the loop is torn down
WeatherTask ==
  /\ pc \in {"stage3", "raised"}
  /\ tasks.weather.st = "running"
  /\ \E kind \in world.weather :
       LET r == get_daily_forecast(kind, world.duration)
       IN tasks' = [tasks EXCEPT !.weather.st = IF r.raised THEN "raised" ELSE "done",
                                 !.weather.value = IF r.raised
                                                     THEN [tag |-> "exc", exc |-> r.exc]
                                                     ELSE r.value,
                                 !.weather.mode = IF kind = "ok" THEN "ok" ELSE "failed"]
  /\ UNCHANGED <<world, hasKey, pc, exc, cache, dest_loc, hotel_kind, recommended_hotels, top_hotel,
                 weather_df, itinerary_text, locations, geo, map_markers, routes,
                 route_polylines, result, calls>>

\* the itinerary task gets its answer; mode records which kind of answer it was
ItineraryTask ==
  /\ pc \in {"stage3", "raised"}
  /\ tasks.itinerary.st = "running"
  /\ \E resp \in ItineraryResponses :
       \E payload \in (IF carries_payload(resp) THEN Payloads(world.days, world.names)
                                                  ELSE {NoPayload}) :
         LET r == create_itinerary(resp, payload)
         IN tasks' = [tasks EXCEPT
                        !.itinerary.st = IF r.raised THEN "raised" ELSE "done",
                        !.itinerary.value = IF r.raised THEN [tag |-> "exc", exc |-> r.exc]
                                            ELSE r.value,
                        !.itinerary.mode = itinerary_mode(resp)]
  /\ UNCHANGED <<world, hasKey, pc, exc, cache, dest_loc, hotel_kind, recommended_hotels, top_hotel,
                 weather_df, itinerary_text, locations, geo, map_markers, routes,
                 route_polylines, result, calls>>

\* line 344: gather re-raises the first exception of a task and main_task
\* ends with it; gather does not cancel or await the other task
GatherRaises ==
  /\ pc = "stage3"
  /\ \E t \in {"weather", "itinerary"} :
       /\ tasks[t].st = "raised"
       /\ exc' = tasks[t].value.exc
  /\ pc' = "raised"
  /\ UNCHANGED <<world, hasKey, cache, dest_loc, hotel_kind, recommended_hotels, top_hotel, tasks,
                 weather_df, itinerary_text, locations, geo, map_markers, routes,
                 route_polylines, result, calls>>

\* line 434: asyncio.run cancels the tasks main_task left running before it
\* closes the event loop
LoopTeardown ==
  /\ pc = "raised"
  /\ \E t \in {"weather", "itinerary"} : tasks[t].st = "running"
  /\ tasks' = [t \in {"weather", "itinerary"} |->
                 IF tasks[t].st = "running" THEN [tasks[t] EXCEPT !.st = "cancelled"]
                 ELSE tasks[t]]
  /\ UNCHANGED <<world, hasKey, pc, exc, cache, dest_loc, hotel_kind, recommended_hotels, top_hotel,
                 weather_df, itinerary_text, locations, geo, map_markers, routes,
                 route_polylines, result, calls>>

\* lines 345-369 (and 378-407 when there is nothing to geocode)
AfterGather ==
  /\ pc = "stage3"
  /\ tasks.weather.st = "done"
  /\ tasks.itinerary.st = "done"
  /\ weather_df' = tasks.weather.value
  /\ LET itinerary_data == tasks.itinerary.value
     IN IF itinerary_data.tag # "dict"
          THEN /\ pc' = "raised"
               /\ exc' = "AttributeError"
               /\ UNCHANGED <<itinerary_text, locations, geo, result>>
          ELSE LET text == dict_get_text(itinerary_data, "Error")
                   locs == dict_get_locations(itinerary_data, <<>>)
                   gts == make_geocode_tasks(locs)
               IN /\ itinerary_text' = text
                  /\ locations' = locs
                  /\ exc' = exc
                  /\ IF Len(locs) > 0
                       THEN /\ geo' = [i \in 1..Len(gts) |->
                                         [day |-> gts[i].day, name |-> gts[i].name,
                                          st |-> "start", value |-> Absent]]
                            /\ pc' = "stage4"
                            /\ result' = result
                       ELSE /\ geo' = <<>>
                            /\ pc' = "returned"
                            /\ result' = make_bundle(tasks.weather.value,
                                           recommended_hotels, text, <<>>, dest_loc, <<>>)
  /\ UNCHANGED <<world, hasKey, cache, dest_loc, hotel_kind, recommended_hotels, top_hotel, tasks,
                 map_markers, routes, route_polylines, calls>>

\* the cached get_geocode in a worker thread: a hit returns the cached value; a
\* miss computes under the lock of the key, which one thread holds at a time
GeocodeBegin(i) ==
  /\ pc = "stage4"
  /\ geo[i].st = "start"
  /\ IF cache_read(cache, geo[i].name) # Absent
       THEN geo' = [geo EXCEPT ![i].st = "done",
                               ![i].value = cache_read(cache, geo[i].name)]
       ELSE /\ \A j \in 1..Len(geo) : ~(geo[j].st = "fetch" /\ geo[j].name = geo[i].name)
            /\ geo' = [geo EXCEPT ![i].st = "fetch"]
  /\ UNCHANGED <<world, hasKey, pc, exc, cache, dest_loc, hotel_kind, recommended_hotels, top_hotel, tasks,
                 weather_df, itinerary_text, locations, map_markers, routes,
                 route_polylines, result, calls>>

\* lines 44-73 run by the thread that holds the lock; the value is cached
GeocodeFetch(i) ==
  /\ pc = "stage4"
  /\ geo[i].st = "fetch"
  /\ \E resp \in GeoResponses(geo[i].name) :
       LET v == get_geocode(hasKey, resp)
       IN /\ geo' = [geo EXCEPT ![i].st = "done", ![i].value = v]
          /\ cache' = cache_write(cache, geo[i].name, v)
  /\ calls' = [calls EXCEPT !.geocode[geo[i].name] =
                              @ + (IF geocode_requests(hasKey) THEN 1 ELSE 0)]
  /\ UNCHANGED <<world, hasKey, pc, exc, dest_loc, hotel_kind, recommended_hotels, top_hotel, tasks,
                 weather_df, itinerary_text, locations, map_markers, routes,
                 route_polylines, result>>

geocode_tasks == [i \in 1..Len(geo) |-> [day |-> geo[i].day, name |-> geo[i].name]]
geocode_results == [i \in 1..Len(geo) |-> geo[i].value]

\* lines 369-390 (and 399-407 when no location was found)
AfterGeocodes ==
  /\ pc = "stage4"
  /\ \A i \in 1..Len(geo) : geo[i].st = "done"
  /\ LET markers == build_markers(geocode_tasks, geocode_results, Len(geo))
         rts == make_route_tasks(markers)
     IN /\ map_markers' = markers
        /\ IF Len(markers) > 0
             THEN /\ routes' = [j \in 1..Len(rts) |->
                                  [day |-> rts[j].day, waypoints |-> rts[j].waypoints,
                                   st |-> "start", value |-> Absent, kind |-> ""]]
                  /\ pc' = "stage5"
                  /\ result' = result
             ELSE /\ routes' = <<>>
                  /\ pc' = "returned"
                  /\ result' = make_bundle(weather_df, recommended_hotels,
                                 itinerary_text, markers, dest_loc, <<>>)
  /\ UNCHANGED <<world, hasKey, exc, cache, dest_loc, hotel_kind, recommended_hotels, top_hotel, tasks,
                 weather_df, itinerary_text, locations, geo, route_polylines, calls>>

\* get_google_directions in a worker thread.  kind records how the call went:
\* "skipped" (no request sent), "ok" (a non-empty path) or "failed" (anything
\* else); a call that sends no request has a single outcome
RouteThread(j) ==
  /\ pc = "stage5"
  /\ routes[j].st = "start"
  /\ \E kind \in RouteKinds :
       /\ directions_requests(routes[j].waypoints) \/ kind = "ok"
       /\ routes' = [routes EXCEPT
            ![j].st = "done",
            ![j].value = get_google_directions(routes[j].waypoints, kind),
            ![j].kind = IF directions_requests(routes[j].waypoints)
                          THEN (IF kind = "ok" THEN "ok" ELSE "failed") ELSE "skipped"]
  /\ calls' = [calls EXCEPT !.route[routes[j].day] =
                 @ + (IF directions_requests(routes[j].waypoints) THEN 1 ELSE 0)]
  /\ UNCHANGED <<world, hasKey, pc, exc, cache, dest_loc, hotel_kind, recommended_hotels, top_hotel, tasks,
                 weather_df, itinerary_text, locations, geo, map_markers,
                 route_polylines, result>>

route_tasks == [j \in 1..Len(routes) |->
                  [day |-> routes[j].day, waypoints |-> routes[j].waypoints]]
route_results == [j \in 1..Len(routes) |-> routes[j].value]

\* lines 390-407
AfterRoutes ==
  /\ pc = "stage5"
  /\ \A j \in 1..Len(routes) : routes[j].st = "done"
  /\ LET polylines == build_polylines(route_tasks, route_results, Len(routes))
     IN /\ route_polylines' = polylines
        /\ result' = make_bundle(weather_df, recommended_hotels, itinerary_text,
                                 map_markers, dest_loc, polylines)
  /\ pc' = "returned"
  /\ UNCHANGED <<world, hasKey, exc, cache, dest_loc, hotel_kind, recommended_hotels, top_hotel, tasks,
                 weather_df, itinerary_text, locations, geo, map_markers, routes, calls>>

Next ==
  \/ DestinationGeocode
  \/ HotelQueryHangs
  \/ FindHotels
  \/ WeatherTask
  \/ ItineraryTask
  \/ GatherRaises
  \/ LoopTeardown
  \/ AfterGather
  \/ \E i \in 1..Len(geo) : GeocodeBegin(i)
  \/ \E i \in 1..Len(geo) : GeocodeFetch(i)
  \/ AfterGeocodes
  \/ \E j \in 1..Len(routes) : RouteThread(j)
  \/ AfterRoutes

Spec == Init /\ [][Next]_vars

\* the fan-out of stage 4 with two names that are not the destination, so that
\* two different texts are looked up concurrently; hotel and weather answer
InitFanout ==
  Start([names |-> {"Gateway", "Juhu"}, days |-> Days,
         hotels |-> {[kind |-> "ok", rows |-> <<"Taj", "Oberoi">>]},
         weather |-> {"ok"}, duration |-> Duration, start_date |-> <<2025, 12, 25>>])

SpecFanout == InitFanout /\ [][Next]_vars

\* an itinerary service that numbers days freely: below 1, zero, within the
\* trip and beyond it (the prompt asks for days 1..duration, nothing checks
\* the answer)
InitDays ==
  Start([names |-> {"Gateway"}, days |-> {-1, 0, 1, 9},
         hotels |-> {[kind |-> "ok", rows |-> <<"Taj", "Oberoi">>]},
         weather |-> {"ok"}, duration |-> Duration, start_date |-> <<2025, 12, 25>>])

SpecDays == InitDays /\ [][Next]_vars

\* get_daily_forecast over the trip durations, the one of the form's default
\* and those beyond 16 days among them, from a start date in mid-year and one
\* whose range runs into the next year
InitDurations ==
  \E d \in 1..MaxDuration, sd \in StartDates :
     Start([names |-> {"Gateway"}, days |-> {1},
            hotels |-> {[kind |-> "ok", rows |-> <<"Taj", "Oberoi">>]},
            weather |-> WeatherKinds, duration |-> d, start_date |-> sd])

SpecDurations == InitDurations /\ [][Next]_vars

\* ----------------------------------------------------------------- claims
Ended == pc \in {"returned", "aborted", "raised"}
FailureModes == {"timeout", "http_error", "not_json", "no_candidates",
                 "bad_candidates", "text_not_json"}
Count(seq, P(_)) == Cardinality({ i \in 1..Len(seq) : P(seq[i]) })

\* C1: a run whose destination geocode succeeded ends by returning a bundle,
\* whatever the other services answer; it neither aborts nor raises.
C1_ResolvedRunReturnsBundle ==
  (Ended /\ dest_loc.tag = "dict") => (pc = "returned" /\ result.tag = "bundle")

\* C2: when the destination geocode yields no result the run returns the abort
\* signal and sends nothing to the hotel finder, the weather fetcher, the
\* itinerary generator, the geocoder (for a location) or the router.
C2_AbortIssuesNoCalls ==
  (pc # "start" /\ dest_loc.tag = "None") =>
     /\ pc = "aborted"
     /\ result = None
     /\ calls.hotel = 0 /\ calls.weather = 0 /\ calls.itinerary = 0
     /\ \A d \in Days : calls.route[d] = 0
     /\ \A n \in Names \ {destination} : calls.geocode[n] = 0
     /\ calls.geocode[destination] <= 1
     /\ geo = <<>> /\ routes = <<>>
     /\ tasks.weather.st = "none" /\ tasks.itinerary.st = "none"

C2_Witness ==
  pc = "aborted" /\ dest_loc.tag = "None" /\ calls.geocode[destination] = 1

\* C3: stage 4 starts only after both stage-3 tasks have settled; the failure of
\* one of them, a raised exception included, does not cancel the other, and the
\* other's result is collected into the bundle.
C3_Stage3FailureIsolated ==
  /\ pc \in {"stage4", "stage5", "returned"} =>
       (tasks.weather.st = "done" /\ tasks.itinerary.st = "done")
  /\ tasks.weather.st # "cancelled" /\ tasks.itinerary.st # "cancelled"
  /\ (Ended /\ tasks.itinerary.st = "raised") =>
       (result.tag = "bundle" /\ result.weather_df = tasks.weather.value)
  /\ (Ended /\ tasks.weather.st = "raised") =>
       (result.tag = "bundle"
          /\ result.itinerary_text = tasks.itinerary.value.itinerary_text)

\* C4: for every failure mode of the itinerary call create_itinerary returns an
\* error text with an empty location list, never raises, and the run goes on to
\* return a bundle.
C4_ItineraryFailureIsSentinel ==
  tasks.itinerary.mode \in FailureModes =>
     /\ tasks.itinerary.st = "done"
     /\ tasks.itinerary.value.tag = "dict"
     /\ tasks.itinerary.value.itinerary_text \in ErrorTexts
     /\ tasks.itinerary.value.locations = <<>>
     /\ Ended => pc = "returned"
\* the coordinate the geocoding service holds for a name, as numbers
TrueCoord(name) == [lat |-> GeoEntry(name).lat[2], lng |-> GeoEntry(name).lon[2]]
Found(name) == cache[name].tag = "dict"

\* the markers a list of locations stands for, given which names were found
ExpectedMarkers(locs) ==
  LET found == SelectSeq(make_geocode_tasks(locs), LAMBDA l : Found(l.name))
  IN [i \in 1..Len(found) |->
        [lat |-> TrueCoord(found[i].name).lat, lng |-> TrueCoord(found[i].name).lng,
         name |-> found[i].name, day |-> found[i].day,
         color |-> (found[i].day - 1) % 7]]

\* the path the router returns for the markers of a day
ExpectedPath(markers, d) ==
  LET group == SelectSeq(markers, LAMBDA m : m.day = d)
      pts == [i \in 1..Len(group) |-> [lat |-> group[i].lat, lng |-> group[i].lng]]
  IN [tag |-> "str", empty |-> FALSE,
      points |-> [origin |-> pts[1], destination |-> pts[Len(pts)],
                  waypoints |-> SubSeq(pts, 2, Len(pts) - 1)]]

\* the polylines of the days whose routing call succeeded
ExpectedPolylines(markers) ==
  LET ok == SelectSeq(routes, LAMBDA r : r.kind = "ok")
  IN [j \in 1..Len(ok) |->
        [day |-> ok[j].day, polyline |-> ExpectedPath(markers, ok[j].day),
         color |-> (ok[j].day - 1) % 7]]

\* C5: a failed weather fetch gives an empty forecast and never raises; the
\* itinerary text, the markers and the polylines of the bundle are the same
\* function of the itinerary, geocode and routing answers whether the weather
\* fetch failed or not.
C5_WeatherFailureIsolated ==
  /\ tasks.weather.mode = "failed" =>
       /\ tasks.weather.st = "done"
       /\ tasks.weather.value = EmptyFrame
       /\ pc = "returned" => result.weather_df = EmptyFrame
       /\ pc = "raised" =>
            (tasks.itinerary.st = "raised" \/ tasks.itinerary.value.tag = "list")
  /\ pc = "returned" =>
       /\ result.itinerary_text = dict_get_text(tasks.itinerary.value, "Error")
       /\ result.map_markers =
            ExpectedMarkers(dict_get_locations(tasks.itinerary.value, <<>>))
       /\ result.route_polylines = ExpectedPolylines(result.map_markers)

C5_Witness ==
  /\ pc = "returned"
  /\ tasks.weather.mode = "failed"
  /\ Len(result.map_markers) >= 2
  /\ Len(result.route_polylines) >= 1

\* C6: when the hotel finder returns the empty list the run does not abort, the
\* placeholder "Hotel in {destination}" (name only) goes to the itinerary task,
\* and the run produces a bundle.
C6_EmptyHotelsStillBundle ==
  (hotel_kind = "ok" /\ Len(recommended_hotels) = 0) =>
     /\ top_hotel = [name |-> "Hotel in Mumbai"]
     /\ tasks.itinerary.hotel = [name |-> "Hotel in Mumbai"]
     /\ pc # "aborted"
     /\ Ended => (pc = "returned" /\ result.tag = "bundle")

\* C7: a failed hotel query reaches the orchestrator as the empty list: the
\* itinerary task gets the placeholder and the bundle's hotel list is empty.
C7_HotelFailureIsEmptyList ==
  hotel_kind = "exception" =>
     /\ recommended_hotels = <<>>
     /\ top_hotel = [name |-> "Hotel in Mumbai"]
     /\ tasks.itinerary.hotel = [name |-> "Hotel in Mumbai"]
     /\ pc = "returned" => result.recommended_hotels = <<>>

FailedGeocodeCalls ==
  { i \in 1..Len(geo) : geo[i].st = "done" /\ geo[i].value.tag = "None" }

\* C8: when exactly one geocode call of the locations fails there is exactly one
\* marker fewer than locations, and every marker carries the day and the name of
\* the location its coordinate was looked up for.
C8_OneFailedGeocodeDropsOneMarker ==
  (pc \in {"stage5", "returned"} /\ Cardinality(FailedGeocodeCalls) = 1) =>
     /\ Len(map_markers) = Len(locations) - 1
     /\ \A k \in 1..Len(map_markers) :
          /\ map_markers[k].lat = TrueCoord(map_markers[k].name).lat
          /\ map_markers[k].lng = TrueCoord(map_markers[k].name).lng
     /\ \A d \in Days, n \in Names :
          Count(map_markers, LAMBDA m : m.day = d /\ m.name = n)
            = IF Found(n) THEN Count(locations, LAMBDA l : l.day = d /\ l.name = n)
                          ELSE 0
     /\ pc = "returned" => result.map_markers = map_markers

C8_Witness ==
  /\ pc = "returned"
  /\ Cardinality(FailedGeocodeCalls) = 1
  /\ Len(result.map_markers) >= 2
  /\ \E i \in FailedGeocodeCalls : i < Len(geo)

\* C9: with two days of at least 2 markers each, one routing call failing and
\* the other succeeding, the bundle has exactly one polyline, that of the
\* succeeding day; a failed day never removes or alters another day's polyline.
C9_RouteFailureIsolated ==
  pc = "returned" =>
     /\ (/\ Len(routes) = 2
         /\ \A j \in 1..2 : Len(routes[j].waypoints) >= 2
         /\ \E j, k \in 1..2 : routes[j].kind = "failed" /\ routes[k].kind = "ok") =>
          /\ Len(result.route_polylines) = 1
          /\ \E k \in 1..2 : /\ routes[k].kind = "ok"
                             /\ result.route_polylines[1].day = routes[k].day
     /\ \A j \in 1..Len(routes) : routes[j].kind = "ok" =>
          /\ Count(result.route_polylines, LAMBDA p : p.day = routes[j].day) = 1
          /\ \E i \in 1..Len(result.route_polylines) :
               /\ result.route_polylines[i].day = routes[j].day
               /\ result.route_polylines[i].polyline =
                    ExpectedPath(result.map_markers, routes[j].day)

C9_Witness ==
  /\ pc = "returned"
  /\ Len(routes) = 2
  /\ \A j \in 1..2 : Len(routes[j].waypoints) >= 2
  /\ routes[1].kind = "failed" /\ routes[2].kind = "ok"
  /\ Len(result.route_polylines) = 1

\* C10: a day with fewer than 2 markers sends no request to the router and has
\* no polyline in the bundle.
C10_SingleMarkerDayNotRouted ==
  \A d \in Days :
    Count(map_markers, LAMBDA m : m.day = d) < 2 =>
       /\ calls.route[d] = 0
       /\ Count(route_polylines, LAMBDA p : p.day = d) = 0
       /\ result.tag = "bundle" =>
            Count(result.route_polylines, LAMBDA p : p.day = d) = 0

C10_Witness ==
  /\ pc = "returned"
  /\ \E d \in Days :
       /\ Count(map_markers, LAMBDA m : m.day = d) = 1
       /\ \E j \in 1..Len(routes) :
            routes[j].day = d /\ routes[j].st = "done" /\ routes[j].kind = "skipped"
  /\ Len(result.route_polylines) = 1

\* C11: within one run the geocoding service is asked at most once for a place
\* name, however many locations carry that name, the destination text included;
\* of the threads of stage 4 that ask for one name at the same time a single
\* one sends the request and the others wait for its value.
C11_OneLookupPerText ==
  /\ \A n \in AllNames : calls.geocode[n] <= 1
  /\ \A n \in AllNames : Count(geo, LAMBDA g : g.st = "fetch" /\ g.name = n) <= 1

C11_Witness ==
  /\ pc = "returned"
  /\ Count(locations, LAMBDA l : l.name = "Gateway") >= 2
  /\ Count(locations, LAMBDA l : l.name = destination) >= 1
  /\ calls.geocode["Gateway"] = 1
  /\ calls.geocode[destination] = 1
  /\ Len(map_markers) = Len(locations)

\* C12: in whatever order the geocode threads and the routing threads finish,
\* every result stays with its request: a thread's coordinate is that of the
\* name it asked for, the k-th marker carries the day, the name and the
\* coordinate of the k-th location that was found, and a polyline's day is the
\* day whose waypoints made up the request that path answers.
C12_ResultsPairedWithRequests ==
  /\ \A i \in 1..Len(geo) :
       (geo[i].st = "done" /\ geo[i].value.tag = "dict") =>
          /\ geo[i].value.lat = TrueCoord(geo[i].name).lat
          /\ geo[i].value.lng = TrueCoord(geo[i].name).lng
  /\ pc \in {"stage5", "returned"} =>
       LET ok == SelectSeq(geo, LAMBDA g : g.value.tag = "dict")
       IN /\ Len(map_markers) = Len(ok)
          /\ \A k \in 1..Len(ok) :
               /\ map_markers[k].day = ok[k].day
               /\ map_markers[k].name = ok[k].name
               /\ map_markers[k].lat = TrueCoord(ok[k].name).lat
               /\ map_markers[k].lng = TrueCoord(ok[k].name).lng
  /\ \A j \in 1..Len(routes) :
       (routes[j].st = "done" /\ routes[j].kind = "ok") =>
          routes[j].value = ExpectedPath(map_markers, routes[j].day)
  /\ pc = "returned" =>
       \A k \in 1..Len(result.route_polylines) :
          LET p == result.route_polylines[k]
          IN /\ p.polyline = ExpectedPath(result.map_markers, p.day)
             /\ \E j \in 1..Len(routes) : routes[j].day = p.day /\ routes[j].kind = "ok"

\* the second routing thread has finished before the first, after geocode
\* threads for two different names both got a coordinate
C12_Witness ==
  /\ pc = "stage5"
  /\ Len(routes) = 2
  /\ routes[1].st = "start"
  /\ routes[2].st = "done" /\ routes[2].kind = "ok"
  /\ \E a, b \in 1..Len(map_markers) :
       map_markers[a].name = "Gateway" /\ map_markers[b].name = "Juhu"
  /\ calls.geocode["Gateway"] = 1 /\ calls.geocode["Juhu"] = 1

\* C13: a returned bundle never has more markers than the itinerary service
\* returned locations, and every day that has a polyline in it is the day of
\* one of its markers.
C13_BundleWithinItinerary ==
  /\ Len(map_markers) <= Len(locations)
  /\ pc = "returned" =>
       /\ Len(result.map_markers)
            <= Len(dict_get_locations(tasks.itinerary.value, <<>>))
       /\ \A k \in 1..Len(result.route_polylines) :
            result.route_polylines[k].day \in marker_days(result.map_markers)

C13_Witness ==
  /\ pc = "returned"
  /\ Len(result.map_markers) >= 2
  /\ Len(result.map_markers) < Len(dict_get_locations(tasks.itinerary.value, <<>>))
  /\ Len(result.route_polylines) = 1
  /\ Cardinality(marker_days(result.map_markers)) = 2

\* C14: every external call bounds its wait and treats the expiry as its
\* failure, so a run is never left waiting: as long as it has neither
\* returned a bundle nor aborted, one of its steps can still be taken, even
\* when a service does not answer.
C14_NoUnboundedWait ==
  pc \in {"returned", "aborted"} \/ ENABLED Next

\* C15: main_task waits at the end of stages 3, 4 and 5 for every task of the
\* batch: no location is geocoded before both stage-3 tasks have settled, no
\* route is requested before every geocode thread has settled, and when
\* main_task ends, however it ends, no task it started is still running.
C15_NoTaskOutlivesJoin ==
  /\ geo # <<>> =>
        (tasks.weather.st \in {"done", "raised"}
           /\ tasks.itinerary.st \in {"done", "raised"})
  /\ routes # <<>> =>
        (\A i \in 1..Len(geo) : geo[i].st = "done")
  /\ Ended =>
        /\ tasks.weather.st # "running" /\ tasks.itinerary.st # "running"
        /\ \A i \in 1..Len(geo) : geo[i].st = "done"
        /\ \A j \in 1..Len(routes) : routes[j].st = "done"

\* C16 as stated: a run that has ended has produced at most one bundle and has
\* attempted the hotel query, the weather fetch and the itinerary generation
\* exactly once each, every location's geocode at most once and every day's
\* route at most once.
C16_EachCallExactlyOnce ==
  Ended =>
    /\ calls.hotel = 1 /\ calls.weather = 1 /\ calls.itinerary = 1
    /\ \A n \in AllNames : calls.geocode[n] <= 1
    /\ \A d \in AllDays : calls.route[d] <= 1
    /\ result # None => (pc = "returned" /\ result.tag = "bundle")

\* C16 amended: nothing is retried.  The hotel query, the weather fetch and
\* the itinerary generation are attempted at most once each: exactly once in a
\* run whose destination geocode succeeded, not at all in a run that aborts.
\* Every location has exactly one geocode task, a name is looked up at most
\* once, a day has at most one routing task and at most one request, and the
\* only result of a run is the one bundle it returns.
C16_NoRetry ==
  /\ calls.hotel <= 1 /\ calls.weather <= 1 /\ calls.itinerary <= 1
  /\ (Ended /\ dest_loc.tag = "dict") =>
       (calls.hotel = 1 /\ calls.weather = 1 /\ calls.itinerary = 1)
  /\ pc = "aborted" =>
       (calls.hotel = 0 /\ calls.weather = 0 /\ calls.itinerary = 0)
  /\ pc \in {"stage4", "stage5", "returned"} =>
       \A d \in AllDays, n \in AllNames :
          Count(geo, LAMBDA g : g.day = d /\ g.name = n)
            = Count(locations, LAMBDA l : l.day = d /\ l.name = n)
  /\ \A n \in AllNames : calls.geocode[n] <= 1
  /\ \A d \in AllDays :
       /\ calls.route[d] <= 1
       /\ Count(routes, LAMBDA r : r.day = d) <= 1
  /\ result # None => (pc = "returned" /\ result.tag = "bundle")

\* every service but the itinerary generator failed once, and nothing was
\* asked a second time
C16_Witness ==
  /\ pc = "returned"
  /\ hotel_kind = "exception" /\ calls.hotel = 1
  /\ tasks.weather.mode = "failed" /\ calls.weather = 1
  /\ calls.itinerary = 1
  /\ \E i \in 1..Len(geo) : geo[i].value = None /\ calls.geocode[geo[i].name] = 1
  /\ \E j \in 1..Len(routes) : routes[j].kind = "failed" /\ calls.route[routes[j].day] = 1

\* the coordinates of the locations of day d whose name was found, in the
\* order the itinerary service returned the locations
FoundOfDay(locs, d) ==
  LET found == SelectSeq(locs, LAMBDA l : l.day = d /\ Found(l.name))
  IN [i \in 1..Len(found) |-> TrueCoord(found[i].name)]

\* C17: the waypoints sent to the router for a day are the coordinates of that
\* day's locations that were found, in the order the itinerary service
\* returned them: first the origin, last the destination, the rest in between.
C17_WaypointsInItineraryOrder ==
  pc \in {"stage5", "returned"} =>
    \A j \in 1..Len(routes) :
       LET sent == FoundOfDay(locations, routes[j].day)
       IN /\ routes[j].waypoints = sent
          /\ routes[j].kind = "ok" =>
               /\ routes[j].value.points.origin = sent[1]
               /\ routes[j].value.points.destination = sent[Len(sent)]
               /\ routes[j].value.points.waypoints = SubSeq(sent, 2, Len(sent) - 1)

\* a routed day with three waypoints that are not all the same, listed by the
\* itinerary service after a location of another day
C17_Witness ==
  /\ pc = "returned"
  /\ \E j \in 1..Len(routes) :
       /\ routes[j].kind = "ok"
       /\ Len(routes[j].waypoints) = 3
       /\ routes[j].waypoints[1] # routes[j].waypoints[Len(routes[j].waypoints)]
       /\ \E a, b \in 1..Len(locations) :
            a < b /\ locations[a].day # routes[j].day /\ locations[b].day = routes[j].day

OutOfRange(d) == d < 1 \/ d > Duration

\* C18: when the itinerary service returns locations whose day is not one of
\* 1..duration, main_task does not raise and goes on through stages 4 and 5 to
\* the bundle it returns: its markers are grouped by the day values the
\* found locations carry, each day group is routed once, and every marker and
\* polyline gets a colour of the palette, (day - 1) modulo its length.
C18_OutOfRangeDaysHandled ==
  (\E i \in 1..Len(locations) : OutOfRange(locations[i].day)) =>
     /\ pc \in {"stage4", "stage5", "returned"}
     /\ exc = ""
     /\ pc \in {"stage5", "returned"} =>
          /\ marker_days(map_markers)
               = { locations[i].day : i \in { k \in 1..Len(locations) :
                                                 Found(locations[k].name) } }
          /\ { routes[j].day : j \in 1..Len(routes) } = marker_days(map_markers)
          /\ Len(routes) = Cardinality(marker_days(map_markers))
          /\ \A k \in 1..Len(map_markers) :
               /\ map_markers[k].color \in 0..(NumColors - 1)
               /\ \E q \in -2..2 :
                    map_markers[k].day - 1 = NumColors * q + map_markers[k].color
     /\ pc = "returned" =>
          /\ result.tag = "bundle"
          /\ result.map_markers = map_markers
          /\ \A k \in 1..Len(result.route_polylines) :
               LET p == result.route_polylines[k]
               IN /\ p.color \in 0..(NumColors - 1)
                  /\ \E q \in -2..2 : p.day - 1 = NumColors * q + p.color
                  /\ p.polyline = ExpectedPath(map_markers, p.day)

\* a bundle with markers on a negative day, on day zero and on a day beyond
\* the trip, and a polyline for one of these days
C18_Witness ==
  /\ pc = "returned"
  /\ {-1, 0, 9} \subseteq marker_days(result.map_markers)
  /\ \E k \in 1..Len(result.route_polylines) :
       OutOfRange(result.route_polylines[k].day)

\* C19: the weather task and the itinerary task are created only after the
\* hotel query has returned, and the hotel the itinerary task is given is the
\* first entry of the list find_hotels returned, or the placeholder
\* "Hotel in {destination}" when that list is empty.
C19_HotelBeforeStage3 ==
  /\ (tasks.weather.st # "none" \/ tasks.itinerary.st # "none"
        \/ calls.weather > 0 \/ calls.itinerary > 0) =>
       (hotel_kind # "" /\ calls.hotel = 1)
  /\ pc \in {"start", "hotel", "hung", "aborted"} =>
       (tasks.weather.st = "none" /\ tasks.itinerary.st = "none")
  /\ tasks.itinerary.st # "none" =>
       /\ Len(recommended_hotels) > 0 => tasks.itinerary.hotel = recommended_hotels[1]
       /\ Len(recommended_hotels) = 0 =>
            tasks.itinerary.hotel = [name |-> "Hotel in " \o destination]
       /\ (hotel_kind = "ok" /\ Len(recommended_hotels) > 0) =>
            tasks.itinerary.hotel.name = "Taj"

C19_Witness ==
  /\ tasks.itinerary.st = "done"
  /\ hotel_kind = "ok"
  /\ Len(recommended_hotels) = 2
  /\ tasks.itinerary.hotel.name = "Taj"
  /\ calls.hotel = 1

\* C20: however the geocode threads of stage 4 interleave on the memo table,
\* an entry holds nothing but the outcome of a look-up of its own text (a
\* coordinate of that text, or None), every thread returns the entry of its
\* text, so a request that comes after the value was stored gets that value,
\* once the batch has settled every text that was asked for has its entry,
\* and no other text has one.
C20_MemoTableConsistent ==
  /\ \A n \in AllNames :
       \/ cache[n] = Absent
       \/ cache[n] = None
       \/ cache[n] = [tag |-> "dict", lat |-> TrueCoord(n).lat, lng |-> TrueCoord(n).lng]
  /\ \A i \in 1..Len(geo) :
       geo[i].st = "done" => (geo[i].value # Absent /\ geo[i].value = cache[geo[i].name])
  /\ pc \in {"stage5", "returned"} =>
       \A i \in 1..Len(geo) : cache[geo[i].name] # Absent
  /\ \A n \in AllNames \ {destination} :
       (\A i \in 1..Len(geo) : geo[i].name # n) => cache[n] = Absent

\* two texts were each asked for by two threads of the batch; one was found
\* and the other was not
C20_Witness ==
  /\ pc = "returned"
  /\ Count(geo, LAMBDA g : g.name = "Gateway") = 2
  /\ Count(geo, LAMBDA g : g.name = "Juhu") = 2
  /\ cache["Gateway"].tag = "dict"
  /\ cache["Juhu"] = None
  /\ calls.geocode["Gateway"] = 1 /\ calls.geocode["Juhu"] = 1
  /\ Len(map_markers) = 2

NextDay(t) ==
  IF t[3] < MonthDays[t[2]] THEN <<t[1], t[2], t[3] + 1>>
  ELSE IF t[2] < 12 THEN <<t[1], t[2] + 1, 1>>
  ELSE <<t[1] + 1, 1, 1>>

RECURSIVE DaysLater(_, _)
DaysLater(t, n) == IF n = 0 THEN t ELSE NextDay(DaysLater(t, n - 1))

\* C21: for a trip of d days the weather request runs from the start date to
\* the day min(d - 1, 15) days after it, min(d, 16) calendar days in all, and
\* the forecast that answers it has min(d, 16) rows, never more than 16.
C21_ForecastRangeCapped ==
  tasks.weather.st # "none" =>
    LET d == world.duration
        n == IF d - 1 < 15 THEN d - 1 ELSE 15
    IN /\ tasks.weather.request.start_date = world.start_date
       /\ tasks.weather.request.end_date = DaysLater(world.start_date, n)
       /\ n + 1 = (IF d < 16 THEN d ELSE 16)
       /\ (tasks.weather.st = "done" /\ tasks.weather.mode = "ok") =>
            /\ tasks.weather.value.rows = n + 1
            /\ tasks.weather.value.rows <= 16

\* a trip of 17 days from 25 December: the range ends on 9 January
C21_Witness ==
  /\ world.duration = 17
  /\ world.start_date = <<2025, 12, 25>>
  /\ tasks.weather.st = "done" /\ tasks.weather.mode = "ok"
  /\ tasks.weather.request.end_date = <<2026, 1, 9>>
  /\ tasks.weather.value.rows = 16

\* C22: when the itinerary task returns no locations (an answer without any,
\* or the error text of a handled failure), main_task starts no geocode thread
\* and no routing thread, sends the geocoder and the router nothing for a
\* location, and returns a bundle with no markers and no polylines whose
\* forecast, hotel list and centre are those of the weather task, the hotel
\* query and the destination geocode.
C22_EmptyLocationsNoMapCalls ==
  LET v == tasks.itinerary.value
  IN (tasks.itinerary.st = "done" /\ v.tag = "dict" /\ v.locations = <<>>) =>
       /\ pc \in {"stage3", "returned"}
       /\ geo = <<>> /\ routes = <<>>
       /\ \A n \in AllNames \ {destination} : calls.geocode[n] = 0
       /\ calls.geocode[destination] = 1
       /\ \A d \in AllDays : calls.route[d] = 0
       /\ (pc = "stage3" /\ tasks.weather.st = "done") => ENABLED AfterGather
       /\ pc = "returned" =>
            /\ result.tag = "bundle"
            /\ result.map_markers = <<>> /\ result.route_polylines = <<>>
            /\ result.itinerary_text = dict_get_text(v, "Error")
            /\ result.weather_df = tasks.weather.value
            /\ tasks.weather.mode = "ok" => result.weather_df.rows = Duration
            /\ result.recommended_hotels = recommended_hotels
            /\ hotel_kind = "ok" =>
                 Len(result.recommended_hotels) \in {Len(r) : r \in HotelRows}
            /\ result.center_lat = TrueCoord(destination).lat
            /\ result.center_lon = TrueCoord(destination).lng

\* the itinerary call failed and was handled; weather and hotels succeeded
C22_Witness ==
  /\ pc = "returned"
  /\ tasks.itinerary.mode \in FailureModes
  /\ tasks.itinerary.value.locations = <<>>
  /\ result.map_markers = <<>> /\ result.route_polylines = <<>>
  /\ result.weather_df.rows = Duration
  /\ Len(result.recommended_hotels) = 2
  /\ result.center_lat = 19

\* C23: the locations of one run that carry the same name text share their
\* geocode outcome: the threads asking for the name all return the same value,
\* and either each of the locations has its marker, all with one coordinate,
\* or none has; a look-up that failed is kept in the memo table like one
\* that succeeded.
C23_SameNameSameOutcome ==
  /\ \A i, j \in 1..Len(geo) :
       (geo[i].st = "done" /\ geo[j].st = "done" /\ geo[i].name = geo[j].name) =>
          geo[i].value = geo[j].value
  /\ pc \in {"stage5", "returned"} =>
       \A n \in AllNames :
          LET ms == SelectSeq(map_markers, LAMBDA m : m.name = n)
          IN /\ Len(ms) \in {0, Count(locations, LAMBDA l : l.name = n)}
             /\ \A a, b \in 1..Len(ms) : ms[a].lat = ms[b].lat /\ ms[a].lng = ms[b].lng
             /\ (Len(ms) = 0 /\ \E k \in 1..Len(locations) : locations[k].name = n)
                  => cache[n] = None
  /\ pc = "returned" => result.map_markers = map_markers

\* a name on two days found for both, another name on two days found for none
C23_Witness ==
  /\ pc = "returned"
  /\ \E a, b \in 1..Len(locations) :
       locations[a].name = "Juhu" /\ locations[b].name = "Juhu"
         /\ locations[a].day # locations[b].day
  /\ Count(result.map_markers, LAMBDA m : m.name = "Juhu") = 2
  /\ Count(locations, LAMBDA l : l.name = "Gateway") = 2
  /\ Count(result.map_markers, LAMBDA m : m.name = "Gateway") = 0
  /\ calls.geocode["Gateway"] = 1

\* C24: the hotel list of the bundle is the list find_hotels returned, entry
\* for entry; the placeholder hotel is given to the itinerary task only and
\* is no entry of the bundle, and when find_hotels returned the empty list
\* the bundle's hotel list is empty.
C24_BundleHotelsAreFinderList ==
  pc = "returned" =>
    /\ result.recommended_hotels = recommended_hotels
    /\ result.recommended_hotels
         \in { find_hotels(o) : o \in { x \in HotelOutcomes : x.kind = hotel_kind } }
    /\ \A k \in 1..Len(result.recommended_hotels) :
         result.recommended_hotels[k].name # placeholder_hotel(destination).name
    /\ IF tasks.itinerary.hotel = placeholder_hotel(destination)
         THEN result.recommended_hotels = <<>>
         ELSE result.recommended_hotels[1] = tasks.itinerary.hotel

C24_Witness ==
  /\ pc = "returned"
  /\ hotel_kind = "ok"
  /\ tasks.itinerary.hotel = [name |-> "Hotel in Mumbai"]
  /\ result.recommended_hotels = <<>>
  /\ Len(result.map_markers) >= 1

\* the index r in 0..NumColors-1 with d - 1 = NumColors * q + r
PaletteIndex(d) ==
  CHOOSE r \in 0..(NumColors - 1) : \E q \in -NumColors..NumColors : d - 1 = NumColors * q + r

====
